---- MODULE Spec2Model ----
(***************************************************************************)
(* Retrieval-and-fallback subsystem of the Hugging Face scraper backend:   *)
(* scraper/scraper.py (WebScraper, HuggingFaceScraper) and the request     *)
(* handlers of scraper/api.py.                                             *)
(*                                                                         *)
(* Strings the code inspects character by character (hrefs, identifiers)   *)
(* are sequences of one-character strings.  Strings it only passes along   *)
(* (messages, titles) are TLA+ strings.  Python's None is the string NONE. *)
(***************************************************************************)
EXTENDS Integers, Sequences, FiniteSets, TLC

\* ------------------------------------------------------------------ bounds
\* Largest retry count a scraper is constructed with.
MaxRetries == 3
\* Largest number of anchors on a listing page.
MaxAnchors == 3
\* Largest limit a caller asks for.
MaxLimit == 2
\* Longest identifier list enrich_models is called with directly.
MaxIds == 3
\* Largest hash seed (seeds are 0..MaxSeed), and the number of calls of
\* create_context_from_models a caller makes with the same arguments.
MaxSeed == 1
MaxCalls == 2
\* Longest list of records create_context_from_models is called with
\* directly, the lists longer than its top-ten cut apart; those exceed the
\* cut by up to MaxExcess.
MaxModels == 3
MaxExcess == 2

\* ------------------------------------------------------- the environment
NONE == "None"

\* None where the code expects a str: JSON null read into a text field.  Text
\* is a sequence of one-character strings, so this is no text.
Null == <<NONE>>

\* "json", the default of the format parameter.
Json == <<"j", "s", "o", "n">>

\* An Optional[str] parameter: None, or the given text.
NoTopic == [given |-> FALSE, text |-> << >>]
Topic(text) == [given |-> TRUE, text |-> text]

\* An average: Python's int 0 of an empty list (den = 0), else the quotient
\* num / den of integers, kept exact.
Quotient(num, den) == [num |-> num, den |-> den]

\* No report yet, no response yet.
NoContext ==
  [topic |-> << >>, total_models |-> 0, total_likes |-> 0,
   total_downloads |-> 0, average_likes |-> Quotient(0, 0),
   average_downloads |-> Quotient(0, 0), top_models |-> << >>,
   pipeline_tags |-> << >>, models |-> << >>]
NoResponse == [status |-> 0, detail |-> "", count |-> 0]

\* Status codes a server can answer a GET with: 200, another 2xx (203, a
\* proxy's transformed copy of the payload), 4xx, 5xx.
StatusCodes == {200, 203, 404, 500}

\* requests.RequestException and the classes the session raises below it.
RequestExceptionClasses == {"RequestException", "ConnectionError", "Timeout"}

\* Network-level failures of one GET: the exception's class and str(e).
NetFailures ==
  { [cls |-> "ConnectionError", msg |-> "connection refused"],
    [cls |-> "Timeout",         msg |-> "read timed out"] }

\* Pages a 200 response to scrape_url can carry, as BeautifulSoup reads them:
\* the stripped text of the title tag ("" without one) and the page's text.
Documents ==
  { [title |-> "",      text |-> "plain body"],
    [title |-> "Title", text |-> "Title body"] }

Urls == {"https://example.org/page"}

\* One entry of the log of outbound I/O: "get", a GET being sent (n = its
\* 1-based number within the call); "resp", its response (n = status code);
\* "exc", the exception it raised instead (msg = str(e)); "sleep", a blocking
\* sleep of n seconds.
Ev(op, n, msg) == [op |-> op, n |-> n, msg |-> msg]

VARIABLES
  pc,              \* position of the single thread
  caller,          \* who called the function being run: "direct" or an endpoint
  retries,         \* self.retries of the scraper in use
  url,             \* argument of scrape_url
  attempt,         \* loop variable of the retry loop (0-based)
  result,          \* scrape_url's result dict
  events,          \* outbound I/O of the current call, in order
  raised,          \* class of the exception that left the call, NONE if none
  limit,           \* the limit argument
  page,            \* anchors (hrefs) of the listing page last answered with 200
  model_ids,       \* the caller's model_ids
  has_hf_hub,      \* HAS_HF_HUB
  format,          \* the format parameter of /scrape
  calls,           \* calls made by the request handler, in order
  enrich,          \* the enrich flag of /models
  next_id,         \* 1-based position in model_ids of enrich_models' next lookup
  enriched_models, \* enrich_models' output list, as built so far; the models
                   \* argument of create_context_from_models
  topic,           \* the topic parameter of /context
  context,         \* the report create_context_from_models returned
  response,        \* what the endpoint answers
  hash_seed,       \* the interpreter's hash seed (PYTHONHASHSEED), drawn at
                   \* start-up, which fixes the hashes of the process's strings
  reports,         \* the reports direct calls of create_context_from_models
                   \* returned, in order
  payloads         \* the JSON objects read from the 200 responses of the
                   \* detail endpoint, in order

fetchVars   == <<url, result>>
listingVars == <<limit, page, model_ids>>
handlerVars == <<has_hf_hub, format, calls, enrich, topic, context,
                 response>>
enrichVars  == <<next_id, enriched_models>>
processVars == <<hash_seed, reports, payloads>>

vars == <<pc, caller, retries, attempt, events, raised,
          fetchVars, listingVars, handlerVars, enrichVars, processVars>>

\* --------------------------------------------------- WebScraper.scrape_url

\* Where a function returns to.
ReturnPc(after) == IF caller = "direct" THEN "returned" ELSE after

\* Where an exception that leaves the function takes control: out of the
\* direct call, or into the handler's except clauses.
RaisePc == IF caller = "direct" THEN "raised" ELSE "handler_except"

\* if response.status_code == 200
IsOk(code) == code = 200

\* f"HTTP {response.status_code}"
HttpError(code) == "HTTP " \o ToString(code)

\* Mutant: only timeouts are caught, except requests.Timeout.
CaughtByFetch_TimeoutOnly(cls) == cls = "Timeout"

\* except requests.RequestException
CaughtByFetch(cls) == cls \in RequestExceptionClasses

\* Mutant: one iteration too many, range(self.retries + 1).
InRange_OneMore(a, r) == a <= r

\* for attempt in range(self.retries)
InRange(a, r) == a < r

\* if attempt < self.retries - 1
SleepsAfter(a, r) == a < r - 1

\* time.sleep(2 * (attempt + 1))
Backoff(a) == 2 * (a + 1)

NewResult(u) ==
  [url |-> u, title |-> "", text |-> "", status |-> "error", error |-> NONE]

\* scrape_url(u), called directly: result = {...}; the loop is entered.
ScrapeUrlCall(u) ==
  /\ pc = "idle"
  /\ caller = "direct"
  /\ pc' = "scrape_url"
  /\ url' = u
  /\ attempt' = 0
  /\ result' = NewResult(u)
  /\ events' = << >>
  /\ UNCHANGED <<processVars, caller, retries, raised, listingVars,
                 handlerVars, enrichVars>>

\* One iteration whose GET is answered 200: the page is parsed and returned.
ScrapeUrlOk(doc) ==
  /\ pc = "scrape_url"
  /\ InRange(attempt, retries)
  /\ IsOk(200)
  /\ events' = events \o <<Ev("get", attempt + 1, ""), Ev("resp", 200, "")>>
  /\ result' = [result EXCEPT !.title = doc.title, !.text = doc.text,
                              !.status = "success"]
  /\ pc' = ReturnPc("after_scrape_url")
  /\ UNCHANGED <<processVars, caller, retries, url, attempt, raised,
                 listingVars, handlerVars, enrichVars>>

\* One iteration whose GET is answered with another status: the else branch
\* records the message and the loop goes on to its next iteration.
ScrapeUrlHttp(code) ==
  /\ pc = "scrape_url"
  /\ InRange(attempt, retries)
  /\ ~IsOk(code)
  /\ events' = events \o <<Ev("get", attempt + 1, ""), Ev("resp", code, "")>>
  /\ result' = [result EXCEPT !.error = HttpError(code)]
  /\ attempt' = attempt + 1
  /\ UNCHANGED <<processVars, pc, caller, retries, url, raised, listingVars,
                 handlerVars, enrichVars>>

\* One iteration whose GET raises: a RequestException is recorded and, unless
\* this was the last iteration, followed by the backoff sleep; anything else
\* leaves the call.
ScrapeUrlExc(f) ==
  /\ pc = "scrape_url"
  /\ InRange(attempt, retries)
  /\ IF CaughtByFetch(f.cls)
       THEN /\ result' = [result EXCEPT !.error = f.msg]
            /\ events' = events \o <<Ev("get", attempt + 1, ""), Ev("exc", 0, f.msg)>>
                           \o (IF SleepsAfter(attempt, retries)
                                 THEN <<Ev("sleep", Backoff(attempt), "")>>
                                 ELSE << >>)
            /\ attempt' = attempt + 1
            /\ UNCHANGED <<pc, raised>>
       ELSE /\ events' = events \o <<Ev("get", attempt + 1, ""), Ev("exc", 0, f.msg)>>
            /\ raised' = f.cls
            /\ pc' = RaisePc
            /\ UNCHANGED <<result, attempt>>
  /\ UNCHANGED <<processVars, caller, retries, url, listingVars, handlerVars,
                 enrichVars>>

\* The loop is exhausted: return result.
ScrapeUrlExhausted ==
  /\ pc = "scrape_url"
  /\ ~InRange(attempt, retries)
  /\ pc' = ReturnPc("after_scrape_url")
  /\ UNCHANGED <<processVars, caller, retries, attempt, events, raised,
                 fetchVars, listingVars,
                 handlerVars, enrichVars>>

\* WebScraper(retries = r), before any call.
InitFetch ==
  /\ pc = "idle"
  /\ retries \in 1..MaxRetries
  /\ url = NONE
  /\ attempt = 0
  /\ result = NewResult(NONE)
  /\ events = << >>
  /\ raised = NONE
  /\ caller = "direct"
  /\ limit = 0
  /\ page = << >>
  /\ model_ids = << >>
  /\ has_hf_hub = FALSE
  /\ format = Json
  /\ hash_seed = 0
  /\ reports = << >>
  /\ payloads = << >>
  /\ calls = << >>
  /\ enrich = FALSE
  /\ next_id = 1
  /\ enriched_models = << >>
  /\ topic = NoTopic
  /\ context = NoContext
  /\ response = NoResponse

NextFetch ==
  \/ \E u \in Urls : ScrapeUrlCall(u)
  \/ \E doc \in Documents : ScrapeUrlOk(doc)
  \/ \E code \in StatusCodes : ScrapeUrlHttp(code)
  \/ \E f \in NetFailures : ScrapeUrlExc(f)
  \/ ScrapeUrlExhausted

SpecFetch == InitFetch /\ [][NextFetch]_vars

\* The thread is never descheduled for good: a blocking GET returns or times
\* out, a sleep ends.
SpecFetchFair == SpecFetch /\ WF_vars(NextFetch)

\* ------------------------------------------------- characters and strings

Upper == {"A", "B", "C", "D", "E", "F", "G", "H", "I", "J", "K", "L", "M",
          "N", "O", "P", "Q", "R", "S", "T", "U", "V", "W", "X", "Y", "Z"}
Lower == {"a", "b", "c", "d", "e", "f", "g", "h", "i", "j", "k", "l", "m",
          "n", "o", "p", "q", "r", "s", "t", "u", "v", "w", "x", "y", "z"}
Digits == {"0", "1", "2", "3", "4", "5", "6", "7", "8", "9"}

\* c in s
HasChar(s, c) == \E i \in 1..Len(s) : s[i] = c

\* s.startswith(prefix)
StartsWith(s, prefix) ==
  /\ Len(prefix) <= Len(s)
  /\ SubSeq(s, 1, Len(prefix)) = prefix

\* s.split(c, 1)[0]: what precedes the first c, all of s without one.
BeforeFirst(s, c) ==
  IF HasChar(s, c)
    THEN SubSeq(s, 1, (CHOOSE i \in 1..Len(s) :
                         s[i] = c /\ \A j \in 1..(i - 1) : s[j] # c) - 1)
    ELSE s

\* s[:n] for n >= 0
Take(s, n) == SubSeq(s, 1, IF n < Len(s) THEN n ELSE Len(s))

\* ----------------------------------------- MODEL_HREF_RE, BAD_ORGS, ids

\* [A-Za-z0-9] and [A-Za-z0-9_.-]
FirstChars == Upper \cup Lower \cup Digits
RestChars == FirstChars \cup {"_", ".", "-"}

\* [A-Za-z0-9][A-Za-z0-9_.-]*
IsSegment(s) ==
  /\ Len(s) >= 1
  /\ s[1] \in FirstChars
  /\ \A i \in 2..Len(s) : s[i] \in RestChars

\* What "$" lets the pattern end at: the end of the string, or the newline
\* that ends the string.
UpToDollar(s) ==
  IF Len(s) >= 1 /\ s[Len(s)] = "\n" THEN SubSeq(s, 1, Len(s) - 1) ELSE s

\* Positions of the "/" that can separate the two groups of MODEL_HREF_RE in s.
Separators(s) ==
  LET b == UpToDollar(s) IN
    { j \in 3..(Len(b) - 1) :
        /\ b[1] = "/"
        /\ b[j] = "/"
        /\ IsSegment(SubSeq(b, 2, j - 1))
        /\ IsSegment(SubSeq(b, j + 1, Len(b))) }

\* MODEL_HREF_RE.match(s) is not None; m.group(1); m.group(2)
HrefMatches(s) == Separators(s) # {}
Group1(s) == SubSeq(UpToDollar(s), 2, (CHOOSE j \in Separators(s) : TRUE) - 1)
Group2(s) ==
  SubSeq(UpToDollar(s), (CHOOSE j \in Separators(s) : TRUE) + 1,
         Len(UpToDollar(s)))

BAD_ORGS ==
  { <<"m", "o", "d", "e", "l", "s">>,
    <<"d", "a", "t", "a", "s", "e", "t", "s">>,
    <<"s", "p", "a", "c", "e", "s">>,
    <<"d", "o", "c", "s">>,
    <<"s", "e", "a", "r", "c", "h">>,
    <<"o", "r", "g", "a", "n", "i", "z", "a", "t", "i", "o", "n", "s">>,
    <<"s", "e", "t", "t", "i", "n", "g", "s">>,
    <<"p", "r", "i", "c", "i", "n", "g">>,
    <<"l", "o", "g", "i", "n">>,
    <<"j", "o", "i", "n">>,
    <<"n", "e", "w">>,
    <<"c", "o", "l", "l", "e", "c", "t", "i", "o", "n", "s">>,
    <<"t", "a", "s", "k", "s">>,
    <<"e", "v", "e", "n", "t", "s">>,
    <<"a", "p", "i">>,
    <<"b", "l", "o", "g">>,
    <<"a", "b", "o", "u", "t">>,
    <<"t", "e", "r", "m", "s">>,
    <<"p", "r", "i", "v", "a", "c", "y">>,
    <<"c", "o", "n", "t", "a", "c", "t">>,
    <<"p", "e", "o", "p", "l", "e">> }

\* href.split("?", 1)[0].split("#", 1)[0]
StripHref(href) == BeforeFirst(BeforeFirst(href, "?"), "#")

\* Mutant: the denylist test is missing.
IsBadOrg_Never(org) == FALSE

\* if org in BAD_ORGS: continue
IsBadOrg(org) == org \in BAD_ORGS

\* if "%" in org or "%" in name or "@" in org or "@" in name: continue
FailsSafetyCheck(org, name) ==
  \/ HasChar(org, "%") \/ HasChar(name, "%")
  \/ HasChar(org, "@") \/ HasChar(name, "@")

\* f"{org}/{name}"
ModelId(org, name) == org \o <<"/">> \o name

\* The body of the loop over the anchors: the ids one anchor appends to ids.
AnchorIds(rawHref) ==
  LET href == StripHref(rawHref) IN
    IF ~HrefMatches(href) THEN << >>
    ELSE IF IsBadOrg(Group1(href)) THEN << >>
    ELSE IF FailsSafetyCheck(Group1(href), Group2(href)) THEN << >>
    ELSE << ModelId(Group1(href), Group2(href)) >>

\* ids after the loop over soup.select("a[href]")
RECURSIVE CollectIds(_)
CollectIds(anchors) ==
  IF anchors = << >> THEN << >>
  ELSE AnchorIds(Head(anchors)) \o CollectIds(Tail(anchors))

SearchPrefix == <<"s", "e", "a", "r", "c", "h", "/">>

\* model_id not in seen and not model_id.startswith("search/")
\* and "%" not in model_id
KeepsId(model_id, seen) ==
  /\ model_id \notin seen
  /\ ~StartsWith(model_id, SearchPrefix)
  /\ ~HasChar(model_id, "%")

\* unique_ids after the loop over ids, from the given seen and unique_ids
RECURSIVE UniqueIds(_, _, _)
UniqueIds(ids, seen, unique_ids) ==
  IF ids = << >> THEN unique_ids
  ELSE IF KeepsId(Head(ids), seen)
    THEN UniqueIds(Tail(ids), seen \cup {Head(ids)},
                   Append(unique_ids, Head(ids)))
    ELSE UniqueIds(Tail(ids), seen, unique_ids)

\* return unique_ids[:limit]
Truncated(unique_ids, n) == Take(unique_ids, n)

\* Mutant: ids[:limit] is taken before the duplicates are removed.
ParseListing_TruncateFirst(anchors, n) ==
  UniqueIds(Take(CollectIds(anchors), n), {}, << >>)

\* What scrape_models returns for a 200 response with these anchors.
ParseListing(anchors, n) ==
  Truncated(UniqueIds(CollectIds(anchors), {}, << >>), n)

\* ------------------------------------------------------ the hub's listing

\* "/orgA/m1"
Href1 == <<"/", "o", "r", "g", "A", "/", "m", "1">>
\* "/orgA/m1?p=2"
Href2 == <<"/", "o", "r", "g", "A", "/", "m", "1", "?", "p", "=", "2">>
\* "/orgB/m2#top"
Href3 == <<"/", "o", "r", "g", "B", "/", "m", "2", "#", "t", "o", "p">>
\* "/Docs/hub"
Href4 == <<"/", "D", "o", "c", "s", "/", "h", "u", "b">>
\* "/docs/hub"
Href5 == <<"/", "d", "o", "c", "s", "/", "h", "u", "b">>
\* "/search/q"
Href6 == <<"/", "s", "e", "a", "r", "c", "h", "/", "q">>
\* "/models"
Href7 == <<"/", "m", "o", "d", "e", "l", "s">>
\* "/o/m/x"
Href8 == <<"/", "o", "/", "m", "/", "x">>
\* "/-o/m"
Href9 == <<"/", "-", "o", "/", "m">>
\* "/o%/m"
Href10 == <<"/", "o", "%", "/", "m">>
\* "/o/m@v"
Href11 == <<"/", "o", "/", "m", "@", "v">>
\* "orgA/m1"
Href12 == <<"o", "r", "g", "A", "/", "m", "1">>
\* "/orgB/m2" followed by a newline
Href13 == <<"/", "o", "r", "g", "B", "/", "m", "2", "\n">>
\* ""
Href14 == << >>

Hrefs == {Href1, Href2, Href3, Href4, Href5, Href6, Href7, Href8, Href9,
          Href10, Href11, Href12, Href13, Href14}

\* Every listing page of at most MaxAnchors anchors.
Pages == UNION { [1..n -> Hrefs] : n \in 0..MaxAnchors }

\* Listing pages the hub serves while a request is handled: an empty page, a
\* page without a valid anchor, pages with valid anchors.
SamplePages ==
  { << >>, <<Href5, Href7>>, <<Href3>>, <<Href1, Href2, Href6, Href3>> }

\* ------------------------------------- HuggingFaceScraper.scrape_models

\* scrape_models(limit = n), called directly.
ScrapeModelsCall(n) ==
  /\ pc = "idle"
  /\ caller = "direct"
  /\ pc' = "scrape_models"
  /\ limit' = n
  /\ attempt' = 0
  /\ events' = << >>
  /\ UNCHANGED <<processVars, caller, retries, raised, page, model_ids,
                 fetchVars,
                 handlerVars, enrichVars>>

\* One iteration whose GET of HF_LIST_URL is answered 200: the anchors are
\* parsed and unique_ids[:limit] is returned.
ListingOk(anchors) ==
  /\ pc = "scrape_models"
  /\ InRange(attempt, retries)
  /\ IsOk(200)
  /\ events' = events \o <<Ev("get", attempt + 1, ""), Ev("resp", 200, "")>>
  /\ page' = anchors
  /\ model_ids' = ParseListing(anchors, limit)
  /\ pc' = ReturnPc("after_scrape")
  /\ UNCHANGED <<processVars, caller, retries, attempt, raised, limit,
                 fetchVars,
                 handlerVars, enrichVars>>

\* One iteration whose GET is answered with another status: nothing is done
\* and the loop goes on to its next iteration.
ListingHttp(code) ==
  /\ pc = "scrape_models"
  /\ InRange(attempt, retries)
  /\ ~IsOk(code)
  /\ events' = events \o <<Ev("get", attempt + 1, ""), Ev("resp", code, "")>>
  /\ attempt' = attempt + 1
  /\ UNCHANGED <<processVars, pc, caller, retries, raised, fetchVars,
                 listingVars,
                 handlerVars, enrichVars>>

\* One iteration whose GET raises: a RequestException is followed by the
\* backoff sleep unless this was the last iteration.
ListingExc(f) ==
  /\ pc = "scrape_models"
  /\ InRange(attempt, retries)
  /\ IF CaughtByFetch(f.cls)
       THEN /\ events' = events \o <<Ev("get", attempt + 1, ""), Ev("exc", 0, f.msg)>>
                           \o (IF SleepsAfter(attempt, retries)
                                 THEN <<Ev("sleep", Backoff(attempt), "")>>
                                 ELSE << >>)
            /\ attempt' = attempt + 1
            /\ UNCHANGED <<pc, raised>>
       ELSE /\ events' = events \o <<Ev("get", attempt + 1, ""), Ev("exc", 0, f.msg)>>
            /\ raised' = f.cls
            /\ pc' = RaisePc
            /\ UNCHANGED attempt
  /\ UNCHANGED <<processVars, caller, retries, fetchVars, listingVars,
                 handlerVars,
                 enrichVars>>

\* The loop is exhausted: return [].
ListingExhausted ==
  /\ pc = "scrape_models"
  /\ ~InRange(attempt, retries)
  /\ model_ids' = << >>
  /\ pc' = ReturnPc("after_scrape")
  /\ UNCHANGED <<processVars, caller, retries, attempt, events, raised, limit,
                 page,
                 fetchVars, handlerVars, enrichVars>>

\* HuggingFaceScraper(retries = 1), before a direct call of scrape_models.
InitExtract ==
  /\ pc = "idle"
  /\ caller = "direct"
  /\ retries = 1
  /\ url = NONE
  /\ attempt = 0
  /\ result = NewResult(NONE)
  /\ events = << >>
  /\ raised = NONE
  /\ limit = 0
  /\ page = << >>
  /\ model_ids = << >>
  /\ has_hf_hub = FALSE
  /\ format = Json
  /\ hash_seed = 0
  /\ reports = << >>
  /\ payloads = << >>
  /\ calls = << >>
  /\ enrich = FALSE
  /\ next_id = 1
  /\ enriched_models = << >>
  /\ topic = NoTopic
  /\ context = NoContext
  /\ response = NoResponse

NextExtract ==
  \/ \E n \in 1..MaxLimit : ScrapeModelsCall(n)
  \/ pc = "scrape_models" /\ \E anchors \in Pages : ListingOk(anchors)
  \/ \E code \in StatusCodes : ListingHttp(code)
  \/ \E f \in NetFailures : ListingExc(f)
  \/ ListingExhausted

SpecExtract == InitExtract /\ [][NextExtract]_vars

\* ----------------------------------- HuggingFaceScraper.get_models_via_api

\* "orgA/m1", "orgB/m2", "gpt2"
IdA == <<"o", "r", "g", "A", "/", "m", "1">>
IdB == <<"o", "r", "g", "B", "/", "m", "2">>
IdGpt2 == <<"g", "p", "t", "2">>

\* What HfApi().list_models(sort="likes", direction=-1, ...) can do: raise
\* an exception of class cls, or iterate over the hub's models in this order.
ApiOutcomes ==
  { [raises |-> TRUE,  cls |-> "HfHubHTTPError",  ranking |-> << >>],
    [raises |-> TRUE,  cls |-> "ConnectionError", ranking |-> << >>],
    [raises |-> FALSE, cls |-> "", ranking |-> << >>],
    [raises |-> FALSE, cls |-> "", ranking |-> <<IdB>>],
    [raises |-> FALSE, cls |-> "", ranking |-> <<IdGpt2, IdA, IdB, IdA>>] }

\* Subclasses of Exception among the classes above.
ExceptionClasses == RequestExceptionClasses \cup {"HfHubHTTPError"}

\* Mutant: only connection errors are caught, except ConnectionError.
CaughtByApi_ConnectionOnly(cls) == cls = "ConnectionError"

\* except Exception (get_models_via_api)
CaughtByApi(cls) == cls \in ExceptionClasses

\* list_models(..., limit=n): at most n entries of the ranking
ListModels(out, n) == Take(out.ranking, n)

\* The value get_models_via_api returns when no exception leaves it.
GetModelsViaApi(out, n) ==
  IF ~has_hf_hub THEN << >>
  ELSE IF out.raises THEN << >>
  ELSE ListModels(out, n)

\* The hub client's part of the log: nothing without the client.
ApiEvents(out, n) ==
  IF ~has_hf_hub THEN << >>
  ELSE <<Ev("list_models", n, ""),
         IF out.raises THEN Ev("exc", 0, out.cls)
         ELSE Ev("listed", Len(ListModels(out, n)), "")>>

\* -------------------------------------- HuggingFaceScraper.get_model_info

\* JSON objects a 200 response of the detail endpoint can carry: the keys
\* present and their values (val of an absent key is never read).  The third
\* has "pipeline_tag": null.
Payloads ==
  { [present |-> {"likes", "downloads", "tags", "pipeline_tag", "created_at",
                  "lastModified"},
     val |-> [likes |-> 10, downloads |-> 100,
              tags |-> << <<"n", "l", "p">> >>,
              pipeline_tag |-> <<"t", "e", "x", "t">>,
              created_at |-> "2024-01-01", lastModified |-> "2024-02-02"]],
    [present |-> {"likes"},
     val |-> [likes |-> 5, downloads |-> 0, tags |-> << >>,
              pipeline_tag |-> << >>, created_at |-> "", lastModified |-> ""]],
    [present |-> {"likes", "downloads", "tags", "pipeline_tag"},
     val |-> [likes |-> 10, downloads |-> 7,
              tags |-> << <<"c", "v">> >>,
              pipeline_tag |-> Null,
              created_at |-> "", lastModified |-> ""]] }

NoPayload == CHOOSE p \in Payloads : p.present = {"likes"}

\* What one GET of the detail endpoint can do: answer 200 with a JSON object;
\* answer 200 with JSON that is no object (a list), on which data.get raises
\* AttributeError; answer another status; raise a network failure.  cls is
\* the class of the exception the GET, or the reading of its body, raises.
LookupOutcomes ==
  { [kind |-> "resp", code |-> 200, payload |-> p, cls |-> "", msg |-> ""] :
      p \in Payloads }
  \cup
  { [kind |-> "resp", code |-> 200, payload |-> NoPayload,
     cls |-> "AttributeError",
     msg |-> "'list' object has no attribute 'get'"] }
  \cup
  { [kind |-> "resp", code |-> c, payload |-> NoPayload, cls |-> "", msg |-> ""] :
      c \in StatusCodes \ {200} }
  \cup
  { [kind |-> "exc", code |-> 0, payload |-> NoPayload, cls |-> f.cls,
     msg |-> f.msg] : f \in NetFailures }

\* data.get(key, default)
DataGet(data, key, default) ==
  IF key \in data.present THEN data.val[key] ELSE default

\* if response.status_code == 200 (get_model_info)
LookupIsOk(code) == code = 200

\* except requests.RequestException (get_model_info)
CaughtByLookup(cls) == cls \in RequestExceptionClasses

\* An exception is raised inside get_model_info's try: by the GET, or by
\* data.get on the body of a 200 response.
LookupRaises(out) ==
  \/ out.kind = "exc"
  \/ out.kind = "resp" /\ LookupIsOk(out.code) /\ out.cls # ""

\* The exception leaves get_model_info, and with it enrich_models.
LookupEscapes(out) == LookupRaises(out) /\ ~CaughtByLookup(out.cls)

\* The dict get_model_info returns when no exception leaves it.
GetModelInfo(model_id, out) ==
  LET base == [model_id |-> model_id, likes |-> 0, downloads |-> 0,
               status |-> "error", error |-> NONE,
               tags |-> << >>, pipeline_tag |-> << >>,
               created_at |-> "", last_modified |-> "",
               detailed |-> FALSE]
      \* detailed: the dict carries the keys tags, pipeline_tag, created_at
      \* and last_modified, which only result.update(...) adds
  IN
    IF out.kind = "exc" THEN [base EXCEPT !.error = out.msg]
    ELSE IF LookupIsOk(out.code)
      THEN [base EXCEPT
              !.likes = DataGet(out.payload, "likes", 0),
              !.downloads = DataGet(out.payload, "downloads", 0),
              !.status = "success",
              !.tags = DataGet(out.payload, "tags", << >>),
              !.pipeline_tag = DataGet(out.payload, "pipeline_tag", << >>),
              !.created_at = DataGet(out.payload, "created_at", ""),
              !.last_modified = DataGet(out.payload, "lastModified", ""),
              !.detailed = TRUE]
      ELSE [base EXCEPT !.error = HttpError(out.code)]

\* --------------------------------------- HuggingFaceScraper.enrich_models

\* Mutant: every info is appended, whatever its status.
IsKept_Always(info) == TRUE

\* if info["status"] == "success"
IsKept(info) == info.status = "success"

\* Mutant: the record is put in front of the list.
AppendInfo_AtFront(enriched, info) == <<info>> \o enriched

\* enriched_models.append(info)
AppendInfo(enriched, info) == Append(enriched, info)

\* enrich_models(model_ids), called directly.
EnrichModelsCall(ids) ==
  /\ pc = "idle"
  /\ caller = "direct"
  /\ pc' = "enrich_models"
  /\ model_ids' = ids
  /\ next_id' = 1
  /\ enriched_models' = << >>
  /\ events' = << >>
  /\ UNCHANGED <<processVars, caller, retries, attempt, raised, limit, page,
                 fetchVars,
                 handlerVars>>

\* One iteration of the loop over model_ids: get_model_info sends one GET, and
\* its result is appended when its status is "success".  An exception that
\* get_model_info does not catch ends the loop.
EnrichLookup(out) ==
  /\ pc = "enrich_models"
  /\ next_id <= Len(model_ids)
  /\ events' = events \o
       <<Ev("get", next_id, ""),
         IF out.kind = "exc" THEN Ev("exc", 0, out.msg)
         ELSE Ev("resp", out.code, "")>>
  /\ IF LookupEscapes(out)
       THEN /\ raised' = out.cls
            /\ pc' = RaisePc
            /\ UNCHANGED <<enrichVars, payloads>>
       ELSE LET info == GetModelInfo(model_ids[next_id], out) IN
            /\ enriched_models' =
                 IF IsKept(info) THEN AppendInfo(enriched_models, info)
                 ELSE enriched_models
            /\ payloads' =
                 IF out.kind = "resp" /\ LookupIsOk(out.code)
                   THEN Append(payloads, out.payload) ELSE payloads
            /\ next_id' = next_id + 1
            /\ UNCHANGED <<pc, raised>>
  /\ UNCHANGED <<hash_seed, reports, caller, retries, attempt, fetchVars,
                 listingVars, handlerVars>>

\* The loop is over: return enriched_models.
EnrichReturn ==
  /\ pc = "enrich_models"
  /\ next_id > Len(model_ids)
  /\ pc' = ReturnPc("after_enrich")
  /\ UNCHANGED <<processVars, caller, retries, attempt, events, raised,
                 fetchVars,
                 listingVars, handlerVars, enrichVars>>

\* Identifiers enrich_models is called with.
EnrichIds == {IdA, IdB}
EnrichInputs == UNION { [1..n -> EnrichIds] : n \in 0..MaxIds }

\* HuggingFaceScraper(), before a direct call of enrich_models.
InitEnrich ==
  /\ pc = "idle"
  /\ caller = "direct"
  /\ retries \in 1..MaxRetries
  /\ url = NONE
  /\ attempt = 0
  /\ result = NewResult(NONE)
  /\ events = << >>
  /\ raised = NONE
  /\ limit = 0
  /\ page = << >>
  /\ model_ids = << >>
  /\ has_hf_hub = FALSE
  /\ format = Json
  /\ hash_seed = 0
  /\ reports = << >>
  /\ payloads = << >>
  /\ calls = << >>
  /\ enrich = FALSE
  /\ next_id = 1
  /\ enriched_models = << >>
  /\ topic = NoTopic
  /\ context = NoContext
  /\ response = NoResponse

NextEnrich ==
  \/ \E ids \in EnrichInputs : EnrichModelsCall(ids)
  \/ \E out \in LookupOutcomes : EnrichLookup(out)
  \/ EnrichReturn

SpecEnrich == InitEnrich /\ [][NextEnrich]_vars

\* ------------------------------------------- create_context_from_models

UpperSeq == <<"A", "B", "C", "D", "E", "F", "G", "H", "I", "J", "K", "L", "M",
              "N", "O", "P", "Q", "R", "S", "T", "U", "V", "W", "X", "Y", "Z">>
LowerSeq == <<"a", "b", "c", "d", "e", "f", "g", "h", "i", "j", "k", "l", "m",
              "n", "o", "p", "q", "r", "s", "t", "u", "v", "w", "x", "y", "z">>

\* s.lower()
LowerOf(c) ==
  IF c \in Upper
    THEN LowerSeq[CHOOSE i \in 1..Len(UpperSeq) : UpperSeq[i] = c]
    ELSE c
ToLower(s) == [i \in 1..Len(s) |-> LowerOf(s[i])]

\* t in s, for strings
Contains(s, t) ==
  \E i \in 0..(Len(s) - Len(t)) : SubSeq(s, i + 1, i + Len(t)) = t

\* if topic:
IsTruthy(tp) == tp.given /\ tp.text # << >>

\* Mutant: the identifier is not searched.
MatchesTopic_NoIdentifier(model, topic_lower) ==
  \/ Contains(ToLower(model.pipeline_tag), topic_lower)
  \/ \E i \in 1..Len(model.tags) : Contains(ToLower(model.tags[i]), topic_lower)

\* topic_lower in pipeline_tag or any(topic_lower in tag for tag in tags)
\* or topic_lower in model.get("model_id", "").lower()
MatchesTopic(model, topic_lower) ==
  \/ Contains(ToLower(model.pipeline_tag), topic_lower)
  \/ \E i \in 1..Len(model.tags) : Contains(ToLower(model.tags[i]), topic_lower)
  \/ Contains(ToLower(model.model_id), topic_lower)

\* models after the topic filter
Filtered(models, tp) ==
  IF IsTruthy(tp)
    THEN SelectSeq(models, LAMBDA m : MatchesTopic(m, ToLower(tp.text)))
    ELSE models

\* Mutant: a record that occurs again is not counted again.
RECURSIVE SumLikes_OncePerRecord(_)
SumLikes_OncePerRecord(models) ==
  IF models = << >> THEN 0
  ELSE (IF \E i \in 1..Len(Tail(models)) : Tail(models)[i] = Head(models)
          THEN 0 ELSE Head(models).likes)
       + SumLikes_OncePerRecord(Tail(models))

\* sum(model.get("likes", 0) for model in models), and for downloads
RECURSIVE SumLikes(_)
SumLikes(models) ==
  IF models = << >> THEN 0 ELSE Head(models).likes + SumLikes(Tail(models))
RECURSIVE SumDownloads(_)
SumDownloads(models) ==
  IF models = << >> THEN 0
  ELSE Head(models).downloads + SumDownloads(Tail(models))

\* Mutant: a model goes in front of the models that have its likes, as in
\* sorted(models, key=likes)[::-1].
InsertByLikes_TiesReversed(sorted, m) ==
  LET k == Cardinality({i \in 1..Len(sorted) : sorted[i].likes > m.likes})
  IN SubSeq(sorted, 1, k) \o <<m>> \o SubSeq(sorted, k + 1, Len(sorted))

\* sorted(models, key=likes, reverse=True): a stable sort, so a model goes
\* behind every model placed before it that has at least its likes.
InsertByLikes(sorted, m) ==
  LET k == Cardinality({i \in 1..Len(sorted) : sorted[i].likes >= m.likes})
  IN SubSeq(sorted, 1, k) \o <<m>> \o SubSeq(sorted, k + 1, Len(sorted))
RECURSIVE SortedInto(_, _)
SortedInto(sorted, models) ==
  IF models = << >> THEN sorted
  ELSE SortedInto(InsertByLikes(sorted, Head(models)), Tail(models))
SortedByLikes(models) == SortedInto(<< >>, models)

\* [:10]
TopCount == 10
TopModels(models) == Take(SortedByLikes(models), TopCount)

\* Mutant: every record's pipeline tag is collected.
HasPipelineTag_Always(model) == TRUE

\* if model.get("pipeline_tag"): neither "" nor None
HasPipelineTag(model) ==
  model.pipeline_tag # << >> /\ model.pipeline_tag # Null

\* pipeline_tags: the set of the truthy pipeline tags
PipelineTagSet(models) ==
  {models[i].pipeline_tag : i \in {j \in 1..Len(models) :
                                     HasPipelineTag(models[j])}}

\* list(pipeline_tags): the set's elements once each, in an order the set's
\* hashing decides
TagOrders(models) ==
  LET T == PipelineTagSet(models) IN
    {order \in [1..Cardinality(T) -> T] :
       \A i \in 1..Cardinality(T) : \A j \in 1..Cardinality(T) :
         i # j => order[i] # order[j]}

\* Hash seeds an interpreter can start with.
HashSeeds == 0..MaxSeed

\* Mutant: the strings are hashed with a seed renewed at every call.
SeedAt_PerCall(n) == hash_seed + n

\* The hash seed in effect during the process's n-th call of
\* create_context_from_models: the one the interpreter started with.
SeedAt(n) == hash_seed

\* list(pipeline_tags) under the hash seed seed: one of the orders, the same
\* for the same set and seed.
ListOfSet(models, seed) ==
  LET orders == TagOrders(models)
      n == Cardinality(orders)
      enum == CHOOSE e \in [1..n -> orders] :
                \A i \in 1..n : \A j \in 1..n : i # j => e[i] # e[j]
  IN enum[(seed % n) + 1]

\* Mutant: the list is sorted in place, models.sort(key=likes, reverse=True).
ModelsAfter_SortedInPlace(models, tp) == SortedByLikes(models)

\* The caller's list after the call: the filter appends to a new list and
\* rebinds the local name models, sorted() returns a new list, and no dict
\* is written to.
ModelsAfter(models, tp) == models

\* "all"
All == <<"a", "l", "l">>

\* Mutant: the integer division total // total_models.
Average_Floored(total, count) ==
  IF count > 0 THEN Quotient(total \div count, 1) ELSE Quotient(0, 0)

\* total / total_models if total_models > 0 else 0
Average(total, count) ==
  IF count > 0 THEN Quotient(total, count) ELSE Quotient(0, 0)

\* model.get("pipeline_tag", "").lower(), evaluated for every model when the
\* topic is truthy, raises AttributeError on None.
CreateContextRaises(models, tp) ==
  IsTruthy(tp) /\ \E i \in 1..Len(models) : models[i].pipeline_tag = Null

\* The dict create_context_from_models returns, list(pipeline_tags) being tags.
CreateContext(models, tp, tags) ==
  LET kept == Filtered(models, tp) IN
    [topic |-> IF IsTruthy(tp) THEN tp.text ELSE All,
     total_models |-> Len(kept),
     total_likes |-> SumLikes(kept),
     total_downloads |-> SumDownloads(kept),
     average_likes |-> Average(SumLikes(kept), Len(kept)),
     average_downloads |-> Average(SumDownloads(kept), Len(kept)),
     top_models |-> TopModels(kept),
     pipeline_tags |-> tags,
     models |-> kept]

\* Topics a caller gives: none, "", "TEXT" (a pipeline tag), "NL" (part of a
\* tag), "orgb" (part of an identifier), "zz" (part of nothing).
Topics ==
  { NoTopic, Topic(<< >>), Topic(<<"T", "E", "X", "T">>), Topic(<<"N", "L">>),
    Topic(<<"o", "r", "g", "b">>), Topic(<<"z", "z">>) }

\* Records create_context_from_models is called with directly: dicts as
\* get_model_info builds them, successes and one error dict (which lacks the
\* keys tags and pipeline_tag), and one with another pipeline tag, "cv".
RecA1 == GetModelInfo(IdA, CHOOSE out \in LookupOutcomes :
           out.kind = "resp" /\ out.code = 200 /\ out.cls = ""
           /\ out.payload.val.downloads = 100)
RecA2 == GetModelInfo(IdA, CHOOSE out \in LookupOutcomes :
           out.kind = "resp" /\ out.code = 200 /\ out.cls = ""
           /\ out.payload.val.likes = 5)
RecANull == GetModelInfo(IdA, CHOOSE out \in LookupOutcomes :
           out.kind = "resp" /\ out.code = 200 /\ out.cls = ""
           /\ out.payload.val.pipeline_tag = Null)
RecB1 == [RecA1 EXCEPT !.model_id = IdB]
RecBCv == [RecA2 EXCEPT !.model_id = IdB, !.pipeline_tag = <<"c", "v">>,
                        !.downloads = 9]
RecBErr == GetModelInfo(IdB, CHOOSE out \in LookupOutcomes :
           out.kind = "resp" /\ out.code = 404)
RecALow == [RecA1 EXCEPT !.likes = 3, !.downloads = 30]
ContextRecords == {RecA1, RecA2, RecANull, RecB1, RecBCv, RecBErr}

\* A list of n records that repeats the pattern recs.
Cycle(recs, n) == [i \in 1..n |-> recs[((i - 1) % Len(recs)) + 1]]

\* The record lists: every short list, and lists longer than the top-ten cut
\* in which equal and unequal likes alternate.
ContextInputs ==
  UNION { [1..n -> ContextRecords] : n \in 0..MaxModels }
  \cup
  { Cycle(recs, TopCount + k) :
      recs \in { <<RecA2, RecA1, RecB1>>, <<RecBCv, RecA2, RecB1, RecBErr>>,
                 <<RecA1, RecANull>>,
                 <<RecALow, RecA1, RecBCv, RecB1, RecALow, RecA1, RecB1,
                   RecALow, RecA1, RecB1, RecALow, RecA1, RecB1, RecALow>> },
      k \in 1..MaxExcess }

\* create_context_from_models(models, topic), called directly with the
\* caller's list and topic, for the first time or again, returns.
CreateContextCall ==
  /\ pc \in {"idle", "returned"}
  /\ caller = "direct"
  /\ Len(reports) < MaxCalls
  /\ ~CreateContextRaises(enriched_models, topic)
  /\ context' = CreateContext(enriched_models, topic,
       ListOfSet(Filtered(enriched_models, topic), SeedAt(Len(reports) + 1)))
  /\ reports' = Append(reports, context')
  /\ enriched_models' = ModelsAfter(enriched_models, topic)
  /\ pc' = "returned"
  /\ UNCHANGED <<hash_seed, payloads, caller, retries, attempt, events, raised,
                 has_hf_hub, format, calls, enrich, topic, response, next_id,
                 fetchVars, listingVars>>

\* create_context_from_models(models, topic), called directly, raises.
CreateContextFails ==
  /\ pc \in {"idle", "returned"}
  /\ caller = "direct"
  /\ Len(reports) < MaxCalls
  /\ CreateContextRaises(enriched_models, topic)
  /\ raised' = "AttributeError"
  /\ pc' = "raised"
  /\ UNCHANGED <<processVars, caller, retries, attempt, events, fetchVars,
                 listingVars, handlerVars, enrichVars>>

\* Before a direct call of create_context_from_models(models, topic): the
\* caller's list models is enriched_models.
InitContext ==
  /\ pc = "idle"
  /\ caller = "direct"
  /\ retries = 1
  /\ url = NONE
  /\ attempt = 0
  /\ result = NewResult(NONE)
  /\ events = << >>
  /\ raised = NONE
  /\ limit = 0
  /\ page = << >>
  /\ model_ids = << >>
  /\ has_hf_hub = FALSE
  /\ format = Json
  /\ hash_seed \in HashSeeds
  /\ reports = << >>
  /\ payloads = << >>
  /\ calls = << >>
  /\ enrich = FALSE
  /\ next_id = 1
  /\ enriched_models \in ContextInputs
  /\ topic \in Topics
  /\ context = NoContext
  /\ response = NoResponse

NextContext ==
  \/ CreateContextFails
  \/ CreateContextCall

SpecContext == InitContext /\ [][NextContext]_vars

\* ------------------------------------- api.py: get_context and get_models

\* One entry of the handler's log of calls into hf_scraper.
Call(fn, n) == [fn |-> fn, limit |-> n]

\* raise HTTPException(status_code=503, detail=...)
Unavailable(detail) == [status |-> 503, detail |-> detail, count |-> 0]

\* raise HTTPException(status_code=500, detail=...)
InternalError(detail) == [status |-> 500, detail |-> detail, count |-> 0]

\* Mutant: no handler has the clause except HTTPException: raise.
ReraisesHttpException_Never(ep) == FALSE

\* The handler has the clause except HTTPException: raise in front of except
\* Exception: get_context and get_models have it, the /scrape handler has not.
ReraisesHttpException(ep) == ep \in {"/context", "/models"}

\* str(e) of an HTTPException: "<status_code>: <detail>".
HttpExceptionStr(exc) == ToString(exc.status) \o ": " \o exc.detail

\* What the caller receives when the handler raises the HTTPException exc
\* inside its try: exc as raised, or, from a handler whose except Exception
\* catches it, the HTTPException(500) made of it.
AnswerTo(ep, exc) ==
  IF ReraisesHttpException(ep) THEN exc
  ELSE InternalError("Internal server error: " \o HttpExceptionStr(exc))

\* A request arrives; the handler's first statement calls
\* hf_scraper.scrape_models(limit=limit).
HandleRequest(ep, n, en, tp) ==
  /\ pc = "idle"
  /\ caller = "none"
  /\ caller' = ep
  /\ limit' = n
  /\ enrich' = en
  /\ topic' = tp
  /\ calls' = <<Call("scrape_models", n)>>
  /\ pc' = "scrape_models"
  /\ attempt' = 0
  /\ events' = << >>
  /\ UNCHANGED <<processVars, retries, raised, page, model_ids, has_hf_hub,
                 format, context,
                 response, fetchVars, enrichVars>>

\* Mutants: the fallback is never taken; the fallback is always taken.
NeedsFallback_Never(ids) == FALSE
NeedsFallback_Always(ids) == TRUE

\* if not model_ids (after scrape_models)
NeedsFallback(ids) == ids = << >>

\* if not model_ids: is false, the API is not asked.
KeepScraped ==
  /\ pc = "after_scrape"
  /\ ~NeedsFallback(model_ids)
  /\ pc' = "check_ids"
  /\ UNCHANGED <<processVars, caller, retries, attempt, events, raised,
                 fetchVars,
                 listingVars, handlerVars, enrichVars>>

\* if not model_ids: model_ids = hf_scraper.get_models_via_api(limit=limit)
FallBackToApi(out) ==
  /\ pc = "after_scrape"
  /\ NeedsFallback(model_ids)
  /\ calls' = Append(calls, Call("get_models_via_api", limit))
  /\ events' = events \o ApiEvents(out, limit)
  /\ IF has_hf_hub /\ out.raises /\ ~CaughtByApi(out.cls)
       THEN /\ raised' = out.cls
            /\ pc' = RaisePc
            /\ UNCHANGED model_ids
       ELSE /\ model_ids' = GetModelsViaApi(out, limit)
            /\ pc' = "check_ids"
            /\ UNCHANGED raised
  /\ UNCHANGED <<processVars, caller, retries, attempt, limit, page,
                 has_hf_hub, format,
                 enrich,
                 topic, context, response, fetchVars, enrichVars>>

\* if not model_ids: raise HTTPException(503), which except HTTPException
\* re-raises.
NoModelIds ==
  /\ pc = "check_ids"
  /\ model_ids = << >>
  /\ response' = AnswerTo(caller,
       Unavailable("Unable to retrieve model data from Hugging Face"))
  /\ pc' = "responded"
  /\ UNCHANGED <<processVars, caller, retries, attempt, events, raised,
                 has_hf_hub, format,
                 calls,
                 enrich, topic, context, fetchVars, listingVars, enrichVars>>

\* /models with enrich false: return {"model_ids": ..., "count": ...}
RespondModelIds ==
  /\ pc = "check_ids"
  /\ model_ids # << >>
  /\ caller = "/models"
  /\ ~enrich
  /\ response' = [status |-> 200, detail |-> "model_ids",
                  count |-> Len(model_ids)]
  /\ pc' = "responded"
  /\ UNCHANGED <<processVars, caller, retries, attempt, events, raised,
                 has_hf_hub, format,
                 calls,
                 enrich, topic, context, fetchVars, listingVars, enrichVars>>

\* hf_scraper.enrich_models(model_ids) is called.
CallEnrich ==
  /\ pc = "check_ids"
  /\ model_ids # << >>
  /\ caller = "/context" \/ enrich
  /\ calls' = Append(calls, Call("enrich_models", Len(model_ids)))
  /\ next_id' = 1
  /\ enriched_models' = << >>
  /\ events' = << >>
  /\ pc' = "enrich_models"
  /\ UNCHANGED <<processVars, caller, retries, attempt, raised, has_hf_hub,
                 format, enrich,
                 topic, context, response, fetchVars, listingVars>>

\* /models with enrich true: return {"models": models, "count": len(models)}
RespondModels ==
  /\ pc = "after_enrich"
  /\ caller = "/models"
  /\ response' = [status |-> 200, detail |-> "models",
                  count |-> Len(enriched_models)]
  /\ pc' = "responded"
  /\ UNCHANGED <<processVars, caller, retries, attempt, events, raised,
                 has_hf_hub, format,
                 calls,
                 enrich, topic, context, fetchVars, listingVars, enrichVars>>

\* /context: if not enriched_models: raise HTTPException(503, ...)
NothingEnriched ==
  /\ pc = "after_enrich"
  /\ caller = "/context"
  /\ enriched_models = << >>
  /\ response' = AnswerTo(caller, Unavailable("Unable to enrich model data"))
  /\ pc' = "responded"
  /\ UNCHANGED <<processVars, caller, retries, attempt, events, raised,
                 has_hf_hub, format,
                 calls,
                 enrich, topic, context, fetchVars, listingVars, enrichVars>>

\* /context: create_context_from_models(enriched_models, topic) raises.
ContextRaises ==
  /\ pc = "after_enrich"
  /\ caller = "/context"
  /\ enriched_models # << >>
  /\ CreateContextRaises(enriched_models, topic)
  /\ raised' = "AttributeError"
  /\ pc' = RaisePc
  /\ UNCHANGED <<processVars, caller, retries, attempt, events, fetchVars,
                 listingVars,
                 handlerVars, enrichVars>>

\* except Exception as e: raise HTTPException(status_code=500, ...), for an
\* exception that is no HTTPException.
HandlerExcept ==
  /\ pc = "handler_except"
  /\ response' = InternalError("Internal server error: " \o raised)
  /\ pc' = "responded"
  /\ UNCHANGED <<processVars, caller, retries, attempt, events, raised,
                 has_hf_hub, format,
                 calls,
                 enrich, topic, context, fetchVars, listingVars, enrichVars>>

\* /context: context = create_context_from_models(enriched_models, topic);
\* return context
RespondContext ==
  /\ pc = "after_enrich"
  /\ caller = "/context"
  /\ enriched_models # << >>
  /\ ~CreateContextRaises(enriched_models, topic)
  /\ context' = CreateContext(enriched_models, topic,
       ListOfSet(Filtered(enriched_models, topic), SeedAt(1)))
  /\ enriched_models' = ModelsAfter(enriched_models, topic)
  /\ response' = [status |-> 200, detail |-> "context",
                  count |-> Len(Filtered(enriched_models, topic))]
  /\ pc' = "responded"
  /\ UNCHANGED <<processVars, caller, retries, attempt, events, raised,
                 has_hf_hub, format, calls, enrich, topic, next_id,
                 fetchVars, listingVars>>

\* The service after start-up: hf_scraper = HuggingFaceScraper(retries = r),
\* HAS_HF_HUB as the import left it.
InitApi ==
  /\ pc = "idle"
  /\ caller = "none"
  /\ retries \in 1..MaxRetries
  /\ url = NONE
  /\ attempt = 0
  /\ result = NewResult(NONE)
  /\ events = << >>
  /\ raised = NONE
  /\ limit = 0
  /\ page = << >>
  /\ model_ids = << >>
  /\ has_hf_hub \in BOOLEAN
  /\ format = Json
  /\ hash_seed \in HashSeeds
  /\ reports = << >>
  /\ payloads = << >>
  /\ calls = << >>
  /\ enrich = FALSE
  /\ next_id = 1
  /\ enriched_models = << >>
  /\ topic = NoTopic
  /\ context = NoContext
  /\ response = NoResponse

NextApi ==
  \/ \E n \in 1..MaxLimit : \E tp \in Topics :
       HandleRequest("/context", n, FALSE, tp)
  \/ \E n \in 1..MaxLimit : \E en \in BOOLEAN :
       HandleRequest("/models", n, en, NoTopic)
  \/ \E anchors \in SamplePages : ListingOk(anchors)
  \/ \E code \in StatusCodes : ListingHttp(code)
  \/ \E f \in NetFailures : ListingExc(f)
  \/ ListingExhausted
  \/ KeepScraped
  \/ \E out \in ApiOutcomes : FallBackToApi(out)
  \/ NoModelIds
  \/ RespondModelIds
  \/ CallEnrich
  \/ \E out \in LookupOutcomes : EnrichLookup(out)
  \/ EnrichReturn
  \/ RespondModels
  \/ NothingEnriched
  \/ ContextRaises
  \/ HandlerExcept
  \/ RespondContext

SpecApi == InitApi /\ [][NextApi]_vars

\* ------------------------------------------- api.py: the /scrape handler

\* Values of the format parameter: "json", "text", "Text".
Formats == { Json, <<"t", "e", "x", "t">>, <<"T", "e", "x", "t">> }

\* raise HTTPException(status_code=400, detail=...)
BadRequest(detail) == [status |-> 400, detail |-> detail, count |-> 0]

\* A /scrape request arrives; the handler's first statement calls
\* web_scraper.scrape_url(url), which builds result and enters its loop.
HandleScrape(u, fmt) ==
  /\ pc = "idle"
  /\ caller = "none"
  /\ caller' = "/scrape"
  /\ format' = fmt
  /\ calls' = <<Call("scrape_url", 0)>>
  /\ url' = u
  /\ result' = NewResult(u)
  /\ attempt' = 0
  /\ events' = << >>
  /\ pc' = "scrape_url"
  /\ UNCHANGED <<processVars, retries, raised, has_hf_hub, enrich, topic,
                 context, response,
                 listingVars, enrichVars>>

\* if result["status"] == "error": raise HTTPException(status_code=400,
\* detail=f"Failed to scrape URL: {result.get('error', 'Unknown error')}"),
\* inside the handler's try.
ScrapeFailed ==
  /\ pc = "after_scrape_url"
  /\ result.status = "error"
  /\ response' = AnswerTo(caller,
       BadRequest("Failed to scrape URL: " \o result.error))
  /\ pc' = "responded"
  /\ UNCHANGED <<processVars, caller, retries, attempt, events, raised,
                 has_hf_hub, format,
                 calls, enrich, topic, context, fetchVars, listingVars,
                 enrichVars>>

\* if format.lower() == "text": return result["text"]; else: return result
ScrapeRespond ==
  /\ pc = "after_scrape_url"
  /\ result.status # "error"
  /\ response' = [status |-> 200,
                  detail |-> IF ToLower(format) = <<"t", "e", "x", "t">>
                               THEN "text" ELSE "result",
                  count |-> 0]
  /\ pc' = "responded"
  /\ UNCHANGED <<processVars, caller, retries, attempt, events, raised,
                 has_hf_hub, format,
                 calls, enrich, topic, context, fetchVars, listingVars,
                 enrichVars>>

\* The service after start-up, web_scraper = WebScraper(retries = r).
InitScrape ==
  /\ pc = "idle"
  /\ caller = "none"
  /\ retries \in 1..MaxRetries
  /\ url = NONE
  /\ attempt = 0
  /\ result = NewResult(NONE)
  /\ events = << >>
  /\ raised = NONE
  /\ limit = 0
  /\ page = << >>
  /\ model_ids = << >>
  /\ has_hf_hub = FALSE
  /\ format = Json
  /\ hash_seed = 0
  /\ reports = << >>
  /\ payloads = << >>
  /\ calls = << >>
  /\ enrich = FALSE
  /\ next_id = 1
  /\ enriched_models = << >>
  /\ topic = NoTopic
  /\ context = NoContext
  /\ response = NoResponse

NextScrape ==
  \/ \E u \in Urls : \E fmt \in Formats : HandleScrape(u, fmt)
  \/ \E doc \in Documents : ScrapeUrlOk(doc)
  \/ \E code \in StatusCodes : ScrapeUrlHttp(code)
  \/ \E f \in NetFailures : ScrapeUrlExc(f)
  \/ ScrapeUrlExhausted
  \/ ScrapeFailed
  \/ ScrapeRespond

SpecScrape == InitScrape /\ [][NextScrape]_vars

\* ------------------------------------------------ properties of scrape_url

\* Positions of the log, and the GETs sent so far in the call.
EventIdx == 1..Len(events)
GetIdx == {i \in EventIdx : events[i].op = "get"}
Sent == Cardinality(GetIdx)

Is2xx(code) == code >= 200 /\ code < 300

\* The attempt that ended at position i of the log failed at network level.
NetFailureAt(i) == events[i].op = "exc"
LastAttemptFailedOnNetwork ==
  /\ events # << >>
  /\ \/ events[Len(events)].op = "exc"
     \/ events[Len(events)].op = "sleep"

\* C1: an attempt answered with a non-2xx status is the last request of the
\* call: no GET follows it in the log.
C1_NoRequestAfterHttpError ==
  \A i \in EventIdx : \A j \in EventIdx :
    (i < j /\ events[i].op = "resp" /\ ~Is2xx(events[i].n))
      => events[j].op # "get"

C2_AtMostRetriesRequests == Sent <= retries
C2_RetryWhileBelowRetries ==
  (pc = "scrape_url" /\ LastAttemptFailedOnNetwork)
    => IF Sent < retries
         THEN Sent' = Sent + 1
         ELSE Sent' = Sent /\ pc' = "returned"

\* C2: a call of scrape_url with retries = R >= 1 sends at most R requests;
\* after a network-level failure its next step sends a further request exactly
\* when fewer than R have been sent, and otherwise returns; and the call
\* always ends with a result.
C2_BoundedRetriesAndTermination ==
  /\ [] C2_AtMostRetriesRequests
  /\ [][C2_RetryWhileBelowRetries]_vars
  /\ <>(pc = "returned" /\ result.status \in {"success", "error"})

\* C2 witness: a call that used all of its R >= 2 requests, the last one
\* following a network-level failure, and returned.
C2_Witness ==
  /\ pc = "returned"
  /\ retries >= 2
  /\ Sent = retries
  /\ \E i \in EventIdx : NetFailureAt(i) /\ \E j \in GetIdx : j > i

\* C3: every attempt k >= 2 comes directly after a sleep of 2*(k-1) seconds.
C3_BackoffBeforeEveryRetry ==
  \A i \in GetIdx :
    events[i].n >= 2
      => i > 1 /\ events[i - 1].op = "sleep"
               /\ events[i - 1].n = 2 * (events[i].n - 1)

\* The message of the attempt that ended at position i of the log.
AttemptEnds == {i \in EventIdx : events[i].op \in {"resp", "exc"}}
MessageAt(i) ==
  IF events[i].op = "exc" THEN events[i].msg
  ELSE "HTTP " \o ToString(events[i].n)
LastAttemptEnd == CHOOSE i \in AttemptEnds : \A j \in AttemptEnds : j <= i
No200 == \A i \in EventIdx : ~(events[i].op = "resp" /\ events[i].n = 200)

\* C4: no exception leaves scrape_url, and a call that ends without a 200
\* response returns status "error" with the last failed attempt's message.
C4_FailureIsReturnedNotRaised ==
  /\ raised = NONE
  /\ pc # "raised"
  /\ (pc = "returned" /\ No200)
       => /\ result.status = "error"
          /\ AttemptEnds # {}
          /\ result.error = MessageAt(LastAttemptEnd)

\* C4 witness: a returned call with no 200 whose attempts failed in different
\* ways, the last one at network level.
C4_Witness ==
  /\ pc = "returned"
  /\ No200
  /\ \E i \in EventIdx : events[i].op = "resp"
  /\ events[Len(events)].op = "exc"
  /\ result.error = events[Len(events)].msg

\* --------------------------------------------- properties of scrape_models

\* The listing page was answered 200 and parsed in this call.
ListingParsed == \E i \in EventIdx : events[i].op = "resp" /\ events[i].n = 200

C8_IsSlug(s) ==
  /\ Len(s) >= 1
  /\ s[1] \in Upper \cup Lower \cup Digits
  /\ \A i \in 1..Len(s) : s[i] \in Upper \cup Lower \cup Digits \cup {".", "_", "-"}
C8_IsIdentifier(id) ==
  \E j \in 1..Len(id) :
    /\ id[j] = "/"
    /\ C8_IsSlug(SubSeq(id, 1, j - 1))
    /\ C8_IsSlug(SubSeq(id, j + 1, Len(id)))
    /\ SubSeq(id, 1, j - 1) \notin BAD_ORGS
C8_NoPercentOrAt(id) == \A i \in 1..Len(id) : id[i] \notin {"%", "@"}

\* C8: every identifier scrape_models returns is org/name with both segments
\* slugs, org outside BAD_ORGS, and no "%" or "@" anywhere.
C8_IdentifiersAreValid ==
  pc = "returned"
    => \A i \in 1..Len(model_ids) :
         C8_IsIdentifier(model_ids[i]) /\ C8_NoPercentOrAt(model_ids[i])

\* C8 witness: identifiers were returned from a page that also carried a
\* denylisted anchor and an anchor with "%".
C8_Witness ==
  /\ pc = "returned"
  /\ model_ids # << >>
  /\ \E i \in 1..Len(page) : page[i] = Href5
  /\ \E i \in 1..Len(page) : page[i] = Href10

\* Anchors of the page that yield an identifier, and among them those that
\* yield theirs for the first time.
ValidAnchors == {i \in 1..Len(page) : AnchorIds(page[i]) # << >>}
FirstSeenAnchors ==
  {i \in ValidAnchors :
     \A j \in ValidAnchors : j < i => AnchorIds(page[j]) # AnchorIds(page[i])}
NthFirstSeen(k) ==
  CHOOSE i \in FirstSeenAnchors :
    Cardinality({j \in FirstSeenAnchors : j <= i}) = k

\* C9: from a page with at least N = limit >= 1 unique valid candidates,
\* scrape_models returns exactly N pairwise distinct identifiers: the first N
\* distinct candidates in page order.
C9_FirstNUniqueCandidates ==
  (pc = "returned" /\ ListingParsed /\ limit >= 1
     /\ Cardinality(FirstSeenAnchors) >= limit)
    => /\ Len(model_ids) = limit
       /\ \A a \in 1..limit : \A b \in 1..limit :
            a # b => model_ids[a] # model_ids[b]
       /\ \A k \in 1..limit :
            <<model_ids[k]>> = AnchorIds(page[NthFirstSeen(k)])

\* C9 witness: limit 2 met although the page's second valid anchor repeats the
\* first one's identifier.
C9_Witness ==
  /\ pc = "returned"
  /\ limit = 2
  /\ Len(model_ids) = 2
  /\ Len(page) >= 3
  /\ AnchorIds(page[1]) # << >>
  /\ AnchorIds(page[2]) = AnchorIds(page[1])

\* --------------------------------- properties of enrich_models

\* The lookup of the i-th input identifier, once made: the entry of the log
\* that follows its GET.
LookupEnd(i) ==
  events[(CHOOSE k \in EventIdx : events[k].op = "get" /\ events[k].n = i) + 1]
Answered200(i) == LookupEnd(i).op = "resp" /\ LookupEnd(i).n = 200
Answered2xx(i) == LookupEnd(i).op = "resp" /\ Is2xx(LookupEnd(i).n)

InputIdx == 1..Len(model_ids)
OutputIdx == 1..Len(enriched_models)
RecordsOf(id) == {k \in OutputIdx : enriched_models[k].model_id = id}
OccurrencesOf(id) == {i \in InputIdx : model_ids[i] = id}

C10_LengthAndOrigin ==
  /\ Len(enriched_models) <= Len(model_ids)
  /\ \A k \in OutputIdx : OccurrencesOf(enriched_models[k].model_id) # {}

\* C10: the output is no longer than the input, its identifiers come from the
\* input, and an identifier has as many records as it has occurrences whose
\* lookup did not fail, failure being a non-2xx answer or a network failure.
C10_AbsentIffNon2xxOrNetworkFailure ==
  pc = "returned"
    => /\ C10_LengthAndOrigin
       /\ \A i \in InputIdx :
            Cardinality(RecordsOf(model_ids[i])) =
              Cardinality({j \in OccurrencesOf(model_ids[i]) : Answered2xx(j)})

\* What the code does guarantee in place of C10: the same with failure being
\* any answer other than 200, or a network failure.
EnrichKeepsExactly200 ==
  pc = "returned"
    => /\ C10_LengthAndOrigin
       /\ \A i \in InputIdx :
            Cardinality(RecordsOf(model_ids[i])) =
              Cardinality({j \in OccurrencesOf(model_ids[i]) : Answered200(j)})

\* An identifier given twice, one lookup answered 200 and the other not, next
\* to a lookup that failed at network level.
EnrichKeepsExactly200_Witness ==
  /\ pc = "returned"
  /\ Len(model_ids) = 3
  /\ Len(enriched_models) = 1
  /\ \E i \in InputIdx : \E j \in InputIdx :
       /\ i # j /\ model_ids[i] = model_ids[j]
       /\ Answered200(i)
       /\ LookupEnd(j).op = "resp" /\ ~Answered200(j)
  /\ \E i \in InputIdx : LookupEnd(i).op = "exc"

\* ------------------------------------------- properties of the selection

\* The handler is past the selection of model_ids.
SelectionDone == pc \in {"check_ids", "enrich_models", "after_enrich", "responded"}

\* What scrape_models returned in this request: the identifiers of the page it
\* parsed, nothing when no attempt was answered 200 (page is then empty).
Scraped == ParseListing(page, limit)

ApiCalls == {k \in 1..Len(calls) : calls[k].fn = "get_models_via_api"}
ScrapeCalls == {k \in 1..Len(calls) : calls[k].fn = "scrape_models"}

\* C5: when scrape_models yields no identifier, whatever the reason,
\* get_models_via_api is invoked exactly once, with the limit scrape_models
\* was given, before the request goes on or returns.
C5_FallbackOnceWithSameLimit ==
  (SelectionDone /\ Scraped = << >>)
    => /\ ScrapeCalls = {1}
       /\ ApiCalls = {2}
       /\ calls[2].limit = calls[1].limit

\* C5 witnesses: the fallback after a page without a valid anchor, and after
\* attempts that failed with a non-2xx answer and at network level.
C5_Witness ==
  /\ pc = "responded"
  /\ Scraped = << >>
  /\ ApiCalls = {2}
  /\ \/ page = <<Href5, Href7>>
     \/ /\ \E i \in EventIdx : events[i].op = "resp" /\ events[i].n = 404
        /\ \E i \in EventIdx : events[i].op = "sleep"

\* C6: when scrape_models yields identifiers, they are the handler's
\* model_ids, in the same order, and get_models_via_api is never invoked.
C6_ScrapedIdsArePreferred ==
  (pc # "idle" /\ pc # "scrape_models" /\ Scraped # << >>)
    => /\ model_ids = Scraped
       /\ ApiCalls = {}

\* C6 witness: a request answered from two scraped identifiers.
C6_Witness ==
  /\ pc = "responded"
  /\ Len(Scraped) = 2
  /\ response.status = 200

ListModelsRaised ==
  \E i \in EventIdx : events[i].op = "exc" /\ events[i].msg \in ExceptionClasses
                        /\ i > 1 /\ events[i - 1].op = "list_models"

\* C7: no exception leaves scrape_models or get_models_via_api (one that
\* occurs in a request occurs after enrich_models was called): scrape_models
\* returns [] when its attempts are exhausted or the page has no valid
\* anchor, get_models_via_api returns [] when the hub client is missing or
\* list_models fails.
C7_EmptyNotException ==
  /\ raised # NONE => \E k \in 1..Len(calls) : calls[k].fn = "enrich_models"
  /\ pc # "raised"
  /\ (pc = "after_scrape" /\ (~ListingParsed \/ ValidAnchors = {}))
       => model_ids = << >>
  /\ (pc = "check_ids" /\ ApiCalls # {} /\ (~has_hf_hub \/ ListModelsRaised))
       => model_ids = << >>

\* C7 witness: both strategies came back empty, the scrape after exhausting
\* its attempts and the API because list_models raised.
C7_Witness ==
  /\ pc = "check_ids"
  /\ model_ids = << >>
  /\ ~ListingParsed
  /\ Sent = retries
  /\ retries >= 2
  /\ has_hf_hub
  /\ ListModelsRaised

\* ------------------------------- properties of enrich_models, continued

\* The lookup of the i-th input identifier failed: a network failure, or an
\* answer that is no 2xx.
LookupFailed(i) ==
  LookupEnd(i).op = "exc" \/ (LookupEnd(i).op = "resp" /\ ~Is2xx(LookupEnd(i).n))

\* enrich_models(["orgA/m1", "orgB/m2", "orgA/m1"]) has returned, the lookups
\* of orgA/m1 were answered 200 with likes 10, the lookup of orgB/m2 failed.
C11_Scenario ==
  /\ pc = "returned"
  /\ model_ids = <<IdA, IdB, IdA>>
  /\ Answered200(1) /\ LookupFailed(2) /\ Answered200(3)
  /\ \A k \in RecordsOf(IdA) : enriched_models[k].likes = 10

\* The average q is a true quotient and has the value v.
AverageIs(q, v) == q.den > 0 /\ q.num = v * q.den

\* The report of create_context_from_models(enriched_models) counts n models
\* with l likes in total and average likes avg.
C11_Reports(n, l, avg) ==
  \A tags \in TagOrders(enriched_models) :
    LET report == CreateContext(enriched_models, NoTopic, tags) IN
      /\ report.total_models = n
      /\ report.total_likes = l
      /\ AverageIs(report.average_likes, avg)

\* C11, as stated: in the scenario the output is exactly one record
\* (orgA/m1, likes 10), and its report without topic has total_models = 1,
\* total_likes = 10, average_likes = 10.
C11_ScenarioOneRecord ==
  C11_Scenario
    => /\ Len(enriched_models) = 1
       /\ enriched_models[1].model_id = IdA
       /\ enriched_models[1].likes = 10
       /\ C11_Reports(1, 10, 10)

\* C11, amended: in the scenario the output is exactly two records
\* (orgA/m1, likes 10), one per occurrence of the identifier, and its report
\* without topic has total_models = 2, total_likes = 20, average_likes = 10.
C11_ScenarioTwoRecords ==
  C11_Scenario
    => /\ Len(enriched_models) = 2
       /\ \A k \in OutputIdx :
            enriched_models[k].model_id = IdA /\ enriched_models[k].likes = 10
       /\ C11_Reports(2, 20, 10)

C11_Witness ==
  /\ C11_Scenario
  /\ LookupEnd(2).op = "resp"
  /\ Len(enriched_models) = 2

\* The GETs sent for the i-th input identifier.
GetsFor(i) == {k \in EventIdx : events[k].op = "get" /\ events[k].n = i}

\* C12: a detail lookup follows the retry policy of the fetch operation: an
\* identifier whose GET failed at network level gets a further GET, after a
\* backoff sleep, while fewer than `retries` GETs were sent for it, so that an
\* identifier is dropped for network failures only after `retries` GETs.
C12_LookupRetriedAfterNetworkFailure ==
  pc = "returned"
    => \A i \in InputIdx :
         LookupEnd(i).op = "exc"
           => /\ retries > 1 => Cardinality(GetsFor(i)) > 1
              /\ retries > 1 =>
                   \E k \in EventIdx : events[k].op = "sleep"
              /\ RecordsOf(model_ids[i]) = {}
                   => Cardinality(GetsFor(i)) = retries

\* The call of enrich_models is over, by a return or by an exception.
EnrichOver == pc \in {"returned", "raised"}

\* C13: when enrich_models is over, whatever the lookups met, it has sent
\* exactly one GET per element of its input, in input order, each answered
\* (or failed) before the next was sent.
C13_OneLookupPerElementInOrder ==
  EnrichOver
    => /\ Len(events) = 2 * Len(model_ids)
       /\ \A i \in InputIdx :
            /\ events[2 * i - 1] = Ev("get", i, "")
            /\ events[2 * i].op \in {"resp", "exc"}

\* What holds of the lookups that were made: they are the lookups of a prefix
\* of the input, one GET each, in input order, each over before the next.
EnrichLookupsAreSequential ==
  /\ Len(events) % 2 = 0
  /\ Len(events) <= 2 * Len(model_ids)
  /\ \A k \in EventIdx :
       IF k % 2 = 1 THEN events[k] = Ev("get", (k + 1) \div 2, "")
       ELSE events[k].op \in {"resp", "exc"}
  /\ pc = "returned" => Len(events) = 2 * Len(model_ids)

\* The input positions whose lookup produced a record, and the place a
\* position has among them.
KeptIdx == {i \in InputIdx : Answered200(i)}
RankAmongKept(i) == Cardinality({j \in KeptIdx : j <= i})

\* C14: the output of enrich_models is its input restricted to the positions
\* whose lookup succeeded, in input order: the record of the n-th such
\* position is the n-th record, whatever the likes and downloads are.
C14_OutputKeepsInputOrder ==
  pc = "returned"
    => /\ Len(enriched_models) = Cardinality(KeptIdx)
       /\ \A i \in KeptIdx :
            enriched_models[RankAmongKept(i)].model_id = model_ids[i]

\* Two different identifiers around a failed lookup, the record with fewer
\* likes and downloads first.
C14_Witness ==
  /\ pc = "returned"
  /\ Len(model_ids) = 3
  /\ KeptIdx = {1, 3}
  /\ model_ids[1] # model_ids[3]
  /\ enriched_models[1].likes < enriched_models[2].likes
  /\ enriched_models[1].downloads < enriched_models[2].downloads

\* ------------------------- properties of create_context_from_models

\* The filtered list of the call that returned the report, and its positions.
Kept == Filtered(enriched_models, topic)
KeptPos == 1..Len(Kept)
TopPos == 1..Len(context.top_models)

\* The place the i-th record of the filtered list has in the order by likes,
\* descending, ties in the order of the list: behind the records with more
\* likes and the earlier records with the same likes.
PlaceByLikes(i) ==
  1 + Cardinality({j \in KeptPos : Kept[j].likes > Kept[i].likes})
    + Cardinality({j \in KeptPos : j < i /\ Kept[j].likes = Kept[i].likes})

\* C15: top_models has at most 10 entries, as many as the filtered list when
\* that has 10 or fewer; it is in descending order of likes; and its n-th
\* entry is the record that is n-th of the filtered list by likes, ties kept
\* in list order (so that it is a permutation of a list of 10 or fewer).
C15_TopModelsStableTopTen ==
  pc = "returned"
    => /\ Len(context.top_models) <= 10
       /\ Len(Kept) <= 10 => Len(context.top_models) = Len(Kept)
       /\ Len(Kept) > 10 => Len(context.top_models) = 10
       /\ \A k \in TopPos : \A l \in TopPos :
            k < l => context.top_models[k].likes >= context.top_models[l].likes
       /\ \A i \in KeptPos :
            PlaceByLikes(i) <= 10
              => context.top_models[PlaceByLikes(i)] = Kept[i]

\* A topic that drops a record and keeps more than ten, among them records
\* with equal and with different likes, not in descending order.
C15_Witness ==
  /\ pc = "returned"
  /\ IsTruthy(topic)
  /\ Len(Kept) < Len(enriched_models)
  /\ Len(Kept) > 10
  /\ \E i \in KeptPos : \E j \in KeptPos :
       i < j /\ Kept[i].likes < Kept[j].likes
  /\ \E i \in KeptPos : \E j \in KeptPos :
       i # j /\ Kept[i].likes = Kept[j].likes /\ Kept[i] # Kept[j]
  /\ \E i \in KeptPos : PlaceByLikes(i) > 10

\* t occurs in s: s is some text, then t, then some text.
C16_IsSubstring(t, s) ==
  \E a \in 0..Len(s) :
    /\ a + Len(t) <= Len(s)
    /\ \A k \in 1..Len(t) : s[a + k] = t[k]

\* The i-th record of the input has the lower-cased topic in its lower-cased
\* pipeline tag, in one of its lower-cased tags or in its lower-cased
\* identifier.
C16_Matches(i) ==
  LET t == ToLower(topic.text)
      m == enriched_models[i]
  IN \/ C16_IsSubstring(t, ToLower(m.pipeline_tag))
     \/ \E n \in 1..Len(m.tags) : C16_IsSubstring(t, ToLower(m.tags[n]))
     \/ C16_IsSubstring(t, ToLower(m.model_id))

\* The positions of the input the claim says are kept, and the place of a
\* position among them.
C16_KeptIdx ==
  IF topic.given /\ topic.text # << >>
    THEN {i \in 1..Len(enriched_models) : C16_Matches(i)}
    ELSE 1..Len(enriched_models)
C16_Rank(i) == Cardinality({j \in C16_KeptIdx : j <= i})

\* C16: the report's models are the records of the input that match a given
\* non-empty topic (every record without one), in input order.
C16_KeptIffTopicMatches ==
  pc = "returned"
    => /\ Len(context.models) = Cardinality(C16_KeptIdx)
       /\ \A i \in C16_KeptIdx :
            context.models[C16_Rank(i)] = enriched_models[i]

\* A topic in upper case that keeps two different records around one it
\* drops, which has the topic neither in its tags nor in its identifier.
C16_Witness ==
  /\ pc = "returned"
  /\ topic.given /\ topic.text # ToLower(topic.text)
  /\ Len(enriched_models) = 3
  /\ C16_KeptIdx = {1, 3}
  /\ enriched_models[1] # enriched_models[3]
  /\ context.models = <<enriched_models[1], enriched_models[3]>>

\* The call of create_context_from_models is over, by a return or by an
\* exception.
ContextOver == pc \in {"returned", "raised"}

\* The topic is given and not empty, and no record of the input has it in its
\* pipeline tag (a record without pipeline tag has it in none), in a tag or in
\* its identifier.
C17_TopicMatchesNoRecord ==
  /\ topic.given /\ topic.text # << >>
  /\ \A i \in 1..Len(enriched_models) :
       LET t == ToLower(topic.text)
           m == enriched_models[i]
       IN /\ ~(HasPipelineTag(m) /\ C16_IsSubstring(t, ToLower(m.pipeline_tag)))
          /\ \A n \in 1..Len(m.tags) : ~C16_IsSubstring(t, ToLower(m.tags[n]))
          /\ ~C16_IsSubstring(t, ToLower(m.model_id))

\* The report counts nothing and lists nothing.
IsZeroReport(report) ==
  /\ report.total_models = 0
  /\ report.total_likes = 0
  /\ report.total_downloads = 0
  /\ report.top_models = << >>
  /\ report.models = << >>

\* C17: a call whose topic matches no record does not fail, whatever the
\* records are, and returns a report that counts and lists nothing.
C17_NoMatchGivesZeroReport ==
  ContextOver /\ C17_TopicMatchesNoRecord
    => pc = "returned" /\ IsZeroReport(context)

\* What holds in place of C17: the same, for lists in which no record has
\* None as its pipeline tag.
ZeroReportUnlessNullTag ==
  /\ ContextOver /\ C17_TopicMatchesNoRecord
      /\ (\A i \in 1..Len(enriched_models) : enriched_models[i].pipeline_tag # Null)
        => pc = "returned" /\ IsZeroReport(context)
  /\ pc = "raised"
        => \E i \in 1..Len(enriched_models) : enriched_models[i].pipeline_tag = Null

\* The likes, and the downloads, of the first n records of the filtered list
\* added up.
RECURSIVE C18_LikesUpTo(_)
C18_LikesUpTo(n) ==
  IF n = 0 THEN 0 ELSE C18_LikesUpTo(n - 1) + Kept[n].likes
RECURSIVE C18_DownloadsUpTo(_)
C18_DownloadsUpTo(n) ==
  IF n = 0 THEN 0 ELSE C18_DownloadsUpTo(n - 1) + Kept[n].downloads

\* C18: total_models is the length of the filtered list, total_likes and
\* total_downloads are the sums of its likes and downloads, every occurrence
\* of a record counted, and models is the filtered list itself.
C18_TotalsOfFilteredList ==
  pc = "returned"
    => /\ context.total_models = Len(Kept)
       /\ context.total_likes = C18_LikesUpTo(Len(Kept))
       /\ context.total_downloads = C18_DownloadsUpTo(Len(Kept))
       /\ context.models = Kept

\* A topic that drops a record and keeps one record twice.
C18_Witness ==
  /\ pc = "returned"
  /\ IsTruthy(topic)
  /\ Len(Kept) < Len(enriched_models)
  /\ \E i \in KeptPos : \E j \in KeptPos : i # j /\ Kept[i] = Kept[j]
  /\ context.total_likes > 0
  /\ context.total_downloads > context.total_likes

\* The average q is zero; it is the quotient of total by count.
C19_IsZero(q) == q.num = 0
C19_IsQuotientOf(q, total, count) ==
  q.den > 0 /\ q.num * count = total * q.den

\* C19: in a report, average_likes and average_downloads are 0 when
\* total_models is 0, and total_likes / total_models and total_downloads /
\* total_models when it is not.
C19_AveragesAreZeroOrQuotients ==
  pc = "returned"
    => IF context.total_models = 0
         THEN /\ C19_IsZero(context.average_likes)
              /\ C19_IsZero(context.average_downloads)
         ELSE /\ C19_IsQuotientOf(context.average_likes,
                                  context.total_likes, context.total_models)
              /\ C19_IsQuotientOf(context.average_downloads,
                                  context.total_downloads, context.total_models)

\* Records with likes and downloads, all filtered out by the topic.
C19_Witness ==
  /\ pc = "returned"
  /\ IsTruthy(topic)
  /\ SumLikes(enriched_models) > 0
  /\ SumDownloads(enriched_models) > 0
  /\ context.total_models = 0

\* An average that is no integer: total_likes is no multiple of total_models.
C19_FractionReached ==
  /\ pc = "returned"
  /\ context.total_models > 0
  /\ context.total_likes % context.total_models # 0

\* ------------------------------------------ properties of /context

\* A /context request has been answered, no internal fault (an exception
\* other than the handler's own HTTPException) having occurred.
ContextAnswered == pc = "responded" /\ caller = "/context" /\ raised = NONE

\* No detail lookup was answered by a 2xx other than 200 (answers on whose
\* reading the code and the Enricher's contract differ).
NoOther2xx ==
  \A k \in EventIdx :
    events[k].op = "resp" /\ Is2xx(events[k].n) => events[k].n = 200

\* C20: a /context request fails only when both strategies returned no
\* identifier: when an identifier was retrieved the answer is a report, and
\* that report counts and lists nothing when the topic filters every record
\* out.  (Stated for the requests whose lookups were answered 200, not 2xx,
\* or failed.)
C20_OnlyFailureIsNoIdentifiers ==
  ContextAnswered /\ NoOther2xx
    => /\ response.status # 200 => model_ids = << >>
       /\ model_ids # << >>
            => /\ response.status = 200
               /\ response.detail = "context"
               /\ Kept = << >> => IsZeroReport(context)

\* What holds in place of C20: a /context request answered without internal
\* fault fails only when no identifier was retrieved or no lookup succeeded,
\* and its report counts and lists nothing when the topic filters every
\* record out.
ContextFailsOnlyWithoutRecords ==
  ContextAnswered
    => /\ response.status # 200
            => /\ response.status = 503
               /\ model_ids = << >> \/ enriched_models = << >>
       /\ (model_ids # << >> /\ enriched_models # << >>)
            => /\ response.status = 200
               /\ response.detail = "context"
               /\ Kept = << >> => IsZeroReport(context)

\* Records retrieved and all filtered out by the topic: a report.
ContextFilteredToEmpty ==
  /\ ContextAnswered
  /\ enriched_models # << >>
  /\ IsTruthy(topic)
  /\ Kept = << >>
  /\ response.status = 200

\* ------------------------------- properties of the service boundary

EnrichCalls == {k \in 1..Len(calls) : calls[k].fn = "enrich_models"}

\* C21: a request to /context or /models for which both strategies returned
\* no identifier is answered 503 without enrich_models or
\* create_context_from_models being called; a request in which an exception
\* other than HTTPException occurred is answered 500; and no other request is
\* answered 500, so that a 503 the handler raises stays a 503.
C21_UnavailableAndInternalError ==
  pc = "responded"
    => /\ model_ids = << >>
            => /\ response.status = 503
               /\ ScrapeCalls = {1} /\ ApiCalls = {2}
               /\ EnrichCalls = {}
               /\ context = NoContext
       /\ raised # NONE => response.status = 500
       /\ response.status = 500 => raised # NONE
       /\ (raised = NONE /\ caller = "/context" /\ enriched_models = << >>)
            => response.status = 503

\* Both strategies were tried and returned nothing: the scrape after a page
\* without valid anchor, the API although the hub client is installed.
C21_Witness ==
  /\ pc = "responded"
  /\ has_hf_hub
  /\ page # << >>
  /\ model_ids = << >>
  /\ response.status = 503

\* A request answered 500 after an internal fault.
InternalFaultAnswered ==
  /\ pc = "responded"
  /\ raised = "AttributeError"
  /\ response.status = 500

\* ------------------------------ properties of scrape_url, continued

\* Some attempt of the call was answered 200.
Got200 == \E i \in EventIdx : events[i].op = "resp" /\ events[i].n = 200

\* Every attempt of the call that was answered was answered 200: the attempts
\* that failed, failed at network level.
OnlyNetworkFailures ==
  \A i \in EventIdx : events[i].op = "resp" => events[i].n = 200

\* C26: the result scrape_url returns has status "success" exactly when an
\* attempt was answered 200, and a result with status "success" has error
\* None.  (Stated for the calls whose failed attempts failed at network
\* level, the attempts the retry policy has followed by a further one.)
C26_ResultIsConsistent ==
  pc = "returned" /\ OnlyNetworkFailures
    => /\ result.status = "success" <=> Got200
       /\ result.status = "success" => result.error = NONE

\* What holds of every result in place of C26: status is "success" exactly
\* when an attempt was answered 200, and error is None exactly when no
\* attempt failed.
ResultStatusFollows200 ==
  pc = "returned"
    => /\ result.status = "success" <=> Got200
       /\ result.error = NONE
            <=> \A i \in EventIdx :
                  events[i].op # "exc" /\ (events[i].op = "resp" => events[i].n = 200)

\* ------------------------------------------- properties of /scrape

\* C27: a /scrape request whose scrape_url returned status "error" is
\* answered 400 with "Failed to scrape URL: " and the scrape's error message;
\* 500 is answered only after an exception that is no HTTPException.
\* (Stated for the requests whose GETs were answered 200, not 2xx, or failed.)
C27_ScrapeErrorIsBadRequest ==
  (pc = "responded" /\ caller = "/scrape" /\ NoOther2xx)
    => /\ result.status = "error"
            => response = BadRequest("Failed to scrape URL: " \o result.error)
       /\ response.status = 500 => raised # NONE

\* What the handler does answer: 200 after a successful scrape, and after a
\* failed one the 500 its except Exception makes of the HTTPException(400).
ScrapeErrorIsAnswered500 ==
  (pc = "responded" /\ caller = "/scrape")
    => /\ result.status = "success" <=> response.status = 200
       /\ result.status = "error"
            => response = InternalError("Internal server error: " \o
                 HttpExceptionStr(BadRequest("Failed to scrape URL: " \o result.error)))

\* ------------- properties of create_context_from_models, continued

C23_IsNonEmptyTag(tag) == tag # << >> /\ tag # Null
C23_Listed == context.pipeline_tags
C23_PipelineTagsAreTheDistinctTags ==
  (pc = "returned" /\ context # NoContext) =>
    /\ \A i \in 1..Len(C23_Listed) :
         \E k \in KeptPos : Kept[k].pipeline_tag = C23_Listed[i]
    /\ \A k \in KeptPos :
         C23_IsNonEmptyTag(Kept[k].pipeline_tag) =>
           \E i \in 1..Len(C23_Listed) : C23_Listed[i] = Kept[k].pipeline_tag
    /\ \A i \in 1..Len(C23_Listed) : \A j \in 1..Len(C23_Listed) :
         i # j => C23_Listed[i] # C23_Listed[j]
    /\ \A i \in 1..Len(C23_Listed) : C23_IsNonEmptyTag(C23_Listed[i])

\* A report over a filtered list in which one tag occurs twice, another tag
\* occurs too and one record has no tag, the topic having dropped a record.
C23_Witness ==
  /\ pc = "returned"
  /\ context # NoContext
  /\ IsTruthy(topic)
  /\ Len(Kept) < Len(enriched_models)
  /\ \E k \in KeptPos : Kept[k].pipeline_tag = << >>
  /\ \E k \in KeptPos : \E l \in KeptPos :
       /\ k # l
       /\ Kept[k].pipeline_tag = Kept[l].pipeline_tag
       /\ C23_IsNonEmptyTag(Kept[k].pipeline_tag)
  /\ Len(C23_Listed) = 2

\* A report over a filtered list with a record whose pipeline tag is None.
C23_NoneTagReached ==
  /\ pc = "returned"
  /\ context # NoContext
  /\ \E k \in KeptPos : Kept[k].pipeline_tag = Null
  /\ Len(C23_Listed) = 1

\* ------------- properties of get_model_info, continued

\* The call of enrich_models returned and each of its lookups was answered
\* 200 with a JSON object: record k was built from payload k.
C24_AllLookupsSucceeded ==
  /\ pc = "returned"
  /\ raised = NONE
  /\ Len(payloads) = Len(model_ids)
  /\ Len(enriched_models) = Len(model_ids)

\* C24: a record built from a 200 answer carries an explicit absent value
\* (None) in each optional field the payload lacks: pipeline tag, creation
\* date, last-modified date.  It never carries a substituted default.
C24_MissingFieldIsExplicitlyAbsent ==
  C24_AllLookupsSucceeded =>
    \A k \in 1..Len(enriched_models) :
      /\ "pipeline_tag" \notin payloads[k].present =>
           enriched_models[k].pipeline_tag = Null
      /\ "created_at" \notin payloads[k].present =>
           enriched_models[k].created_at = NONE
      /\ "lastModified" \notin payloads[k].present =>
           enriched_models[k].last_modified = NONE

\* What the code does instead: the field a payload lacks holds the default
\* given to data.get, the empty string; the field a payload has holds the
\* payload's value.
MissingFieldGetsDefault ==
  C24_AllLookupsSucceeded =>
    \A k \in 1..Len(enriched_models) :
      /\ enriched_models[k].pipeline_tag =
           IF "pipeline_tag" \in payloads[k].present
             THEN payloads[k].val.pipeline_tag ELSE << >>
      /\ enriched_models[k].created_at =
           IF "created_at" \in payloads[k].present
             THEN payloads[k].val.created_at ELSE ""
      /\ enriched_models[k].last_modified =
           IF "lastModified" \in payloads[k].present
             THEN payloads[k].val.lastModified ELSE ""

\* A record built from a payload that lacks the three optional fields.
MissingFieldReached ==
  /\ C24_AllLookupsSucceeded
  /\ \E k \in 1..Len(enriched_models) :
       payloads[k].present \cap {"pipeline_tag", "created_at", "lastModified"}
         = {}

\* ------------- frame of create_context_from_models

\* C25: a call of create_context_from_models, whether it returns a report
\* or raises, leaves the caller's record list as it was: same length, same
\* order, same field values in every record.
C25_InputIsNotMutated ==
  [][(/\ pc' \in {"returned", "raised"}
      /\ reports' # reports \/ raised' # raised)
       => enriched_models' = enriched_models]_vars

\* A call returned a report for a list that is not in descending order of
\* likes and from which the topic dropped a record: the report's models and
\* top_models both differ from the caller's list.
C25_Witness ==
  /\ pc = "returned"
  /\ reports # << >>
  /\ IsTruthy(topic)
  /\ SortedByLikes(enriched_models) # enriched_models
  /\ context.models # enriched_models
  /\ context.top_models # context.models
  /\ Len(context.models) > 1

====
